---- MODULE Spec2Model ----
(***************************************************************************)
(* Model of httpie/src/main.rs: a command-line HTTP client.                *)
(*                                                                         *)
(* Strings are sequences of one-character strings, so that splitting,      *)
(* scheme scanning and media-type parsing are computed character by        *)
(* character as the code (and the libraries it calls) compute them.        *)
(*                                                                         *)
(* Three specifications share the variables:                               *)
(*   SpecKv   applies parse_kvs to every token of a bounded set;           *)
(*   SpecUrl  applies parse_url to every string of a bounded set;          *)
(*   Spec     is one run of main, from the command line to the exit.       *)
(***************************************************************************)
EXTENDS Integers, Sequences, FiniteSets, TLC

VARIABLES
    pc,        \* position of the run
    argv,      \* the tokenized command line: subcommand, url, body tokens
    server,    \* what the transport will answer: a network error or a response
    opts,      \* the parsed Opts (None before parsing succeeds)
    sent,      \* the HTTP requests handed to the transport, in order
    resp,      \* the Response obtained (None before)
    mime,      \* the local `mime` of print_response
    text,      \* the local `body` of print_response
    stdout,    \* the lines printed, in order
    stderr,    \* the diagnostics printed, in order
    exitCode,  \* the exit status of the process (None while running)
    arg,       \* SpecKv / SpecUrl: the argument of the function under test
    ret        \* SpecKv / SpecUrl: its result (None before the call)

vars == <<pc, argv, server, opts, sent, resp, mime, text, stdout, stderr, exitCode, arg, ret>>

None == [none |-> TRUE]

(***************************************************************************)
(* Bounds                                                                  *)
(***************************************************************************)
MaxTokLen == 4      \* longest key=value token SpecKv enumerates
MaxUrlRest == 3     \* longest text after the scheme part SpecUrl enumerates
MaxBody == 2        \* most body tokens on a command line of Spec
MaxHeaders == 3     \* most header lines in a response of Spec

(***************************************************************************)
(* Strings                                                                 *)
(***************************************************************************)
RECURSIVE StringsUpTo(_, _)
StringsUpTo(alphabet, n) ==
    IF n = 0 THEN {<<>>}
    ELSE LET shorter == StringsUpTo(alphabet, n - 1)
         IN  shorter \cup {Append(s, c) : s \in shorter, c \in alphabet}

\* index of the first occurrence of character c in s, 0 when there is none
Find(s, c) ==
    IF \E i \in 1..Len(s) : s[i] = c
    THEN CHOOSE i \in 1..Len(s) : s[i] = c /\ \A j \in 1..(i - 1) : s[j] # c
    ELSE 0

Prefix(s, n) == SubSeq(s, 1, n)
Suffix(s, n) == SubSeq(s, n, Len(s))

IsPrefixOf(p, s) == Len(p) <= Len(s) /\ Prefix(s, Len(p)) = p

(***************************************************************************)
(* KvItem and its parser                                                   *)
(***************************************************************************)
\* str::split("="): the segments between the '=' characters; never empty
RECURSIVE Split(_)
Split(s) ==
    LET i == Find(s, "=")
    IN  IF i = 0 THEN <<s>>
        ELSE <<Prefix(s, i - 1)>> \o Split(Suffix(s, i + 1))

\* Iterator::next on the segments still to be read
IterNext(segs) ==
    IF Len(segs) = 0 THEN [some |-> FALSE, rest |-> segs]
    ELSE [some |-> TRUE, item |-> Head(segs), rest |-> Tail(segs)]

Ok(v) == [ok |-> TRUE, val |-> v]
Err(e) == [ok |-> FALSE, err |-> e]

\* anyhow!(format!("Failed to parse {}", s))
KvErr(s) == <<"Failed to parse ", s>>

KvItem(k, v) == [key |-> k, value |-> v]

\* mutant: a missing second segment defaults to the empty string
from_str_lenient(s) ==
    LET n1 == IterNext(Split(s))
        n2 == IterNext(n1.rest)
    IN  Ok(KvItem(n1.item, IF n2.some THEN n2.item ELSE <<>>))

\* mutant: the value is everything after the first '='
from_str_rest(s) ==
    LET i == Find(s, "=")
    IN  IF i = 0 THEN Err(KvErr(s))
        ELSE Ok(KvItem(Prefix(s, i - 1), Suffix(s, i + 1)))

from_str(s) ==
    LET n1 == IterNext(Split(s))
        n2 == IterNext(n1.rest)
    IN  IF ~n1.some THEN Err(KvErr(s))
        ELSE IF ~n2.some THEN Err(KvErr(s))
        ELSE Ok(KvItem(n1.item, n2.item))

parse_kvs(s) == from_str(s)

(***************************************************************************)
(* Url::parse (the url crate, called by `url.parse()` in parse_url)        *)
(*                                                                         *)
(* Modelled for inputs without whitespace, '?', '#', '@', '\', '[' and     *)
(* without ':' after the scheme delimiter: scheme scanning, the special    *)
(* schemes' authority and the serialization of the parsed Url.             *)
(***************************************************************************)
UpperCase == <<"A", "B", "C", "D", "E", "F", "G", "H", "I", "J", "K", "L", "M",
               "N", "O", "P", "Q", "R", "S", "T", "U", "V", "W", "X", "Y", "Z">>
LowerCase == <<"a", "b", "c", "d", "e", "f", "g", "h", "i", "j", "k", "l", "m",
               "n", "o", "p", "q", "r", "s", "t", "u", "v", "w", "x", "y", "z">>
Digits == {"0", "1", "2", "3", "4", "5", "6", "7", "8", "9"}

IsUpper(c) == \E i \in 1..26 : UpperCase[i] = c
IsLower(c) == \E i \in 1..26 : LowerCase[i] = c
IsAlpha(c) == IsUpper(c) \/ IsLower(c)

\* char::to_ascii_lowercase
ToLower(c) == IF IsUpper(c) THEN LowerCase[CHOOSE i \in 1..26 : UpperCase[i] = c] ELSE c
LowerStr(s) == [i \in 1..Len(s) |-> ToLower(s[i])]

IsSchemeChar(c) == IsAlpha(c) \/ c \in Digits \/ c \in {"+", "-", "."}

\* Parser::parse_scheme: the length of the scheme, 0 when the input has none
SchemeEnd(s) ==
    LET colon == Find(s, ":")
    IN  IF /\ colon > 1
           /\ IsAlpha(s[1])
           /\ \A i \in 1..(colon - 1) : IsSchemeChar(s[i])
        THEN colon - 1
        ELSE 0

\* SchemeType::from: http, https, ws, wss and ftp are special
IsSpecial(scheme) ==
    scheme \in { <<"h", "t", "t", "p">>, <<"h", "t", "t", "p", "s">>,
                 <<"w", "s">>, <<"w", "s", "s">>, <<"f", "t", "p">> }

\* the number of leading '/' of s
RECURSIVE CountSlashes(_)
CountSlashes(s) ==
    IF Len(s) > 0 /\ Head(s) = "/" THEN 1 + CountSlashes(Tail(s)) ELSE 0

\* the text of s up to (not including) its first '/'
UpToSlash(s) == LET i == Find(s, "/") IN IF i = 0 THEN s ELSE Prefix(s, i - 1)
\* the text of s from its first '/' on
FromSlash(s) == LET i == Find(s, "/") IN IF i = 0 THEN <<>> ELSE Suffix(s, i)

Url(scheme, hasHost, host, path, href) ==
    [scheme |-> scheme, has_host |-> hasHost, host |-> host, path |-> path, href |-> href]

UrlParse(s) ==
    LET n == SchemeEnd(s)
        scheme == LowerStr(Prefix(s, n))
        rest == Suffix(s, n + 2)
    IN  IF n = 0 THEN Err("RelativeUrlWithoutBase")
        ELSE IF IsSpecial(scheme) THEN
            \* any number of slashes, then the authority, then the path
            LET auth == Suffix(rest, CountSlashes(rest) + 1)
                host == LowerStr(UpToSlash(auth))
                path == IF FromSlash(auth) = <<>> THEN <<"/">> ELSE FromSlash(auth)
            IN  IF host = <<>> THEN Err("EmptyHost")
                ELSE Ok(Url(scheme, TRUE, host, path,
                            scheme \o <<":", "/", "/">> \o host \o path))
        ELSE IF CountSlashes(rest) >= 2 THEN
            \* "//": an opaque host, kept as written, then the path
            LET auth == Suffix(rest, 3)
            IN  Ok(Url(scheme, UpToSlash(auth) # <<>>, UpToSlash(auth), FromSlash(auth),
                       scheme \o <<":">> \o rest))
        ELSE
            \* a path, or an opaque (cannot-be-a-base) path: no host
            Ok(Url(scheme, FALSE, <<>>, rest, scheme \o <<":">> \o rest))

\* mutant: the serialization of the parsed Url is returned
parse_url_normalized(url) ==
    LET _url == UrlParse(url)
    IN  IF ~_url.ok THEN Err(_url.err) ELSE Ok(_url.val.href)

parse_url(url) ==
    LET _url == UrlParse(url)
    IN  IF ~_url.ok THEN Err(_url.err) ELSE Ok(url)


(***************************************************************************)
(* SpecKv: parse_kvs applied to every token over {a, b, =}                 *)
(***************************************************************************)
KvAlphabet == {"a", "b", "="}
KvTokens == StringsUpTo(KvAlphabet, MaxTokLen)

Idle ==
    /\ argv = None /\ server = None /\ opts = None /\ sent = <<>> /\ resp = None
    /\ mime = None /\ text = None
    /\ stdout = <<>> /\ stderr = <<>> /\ exitCode = None

RunVars == <<argv, server, opts, sent, resp, mime, text, stdout, stderr, exitCode>>

InitKv ==
    /\ pc = "kv"
    /\ arg \in KvTokens
    /\ ret = None
    /\ Idle

CallParseKvs ==
    /\ pc = "kv"
    /\ ret = None
    /\ ret' = parse_kvs(arg)
    /\ UNCHANGED <<pc, arg>>
    /\ UNCHANGED RunVars

NextKv == CallParseKvs

SpecKv == InitKv /\ [][NextKv]_vars

HasEq(s) == \E i \in 1..Len(s) : s[i] = "="

\* C1: parse_kvs succeeds exactly on the tokens that contain '=', and the
\* error of every other token names the raw token.
C1_OkIffHasEq ==
    (pc = "kv" /\ ret # None) =>
        /\ ret.ok <=> HasEq(arg)
        /\ ~HasEq(arg) => (~ret.ok /\ ret.err = <<"Failed to parse ", arg>>)

C1_Witness ==
    /\ pc = "kv" /\ ret # None /\ ~ret.ok
    /\ Len(arg) = 2 /\ ~HasEq(arg)

\* the text between the first '=' and the second '=' (or the end of s)
SecondSegment(s) ==
    LET afterFirst == Suffix(s, Find(s, "=") + 1)
        j == Find(afterFirst, "=")
    IN  IF j = 0 THEN afterFirst ELSE Prefix(afterFirst, j - 1)

\* C2: on success the key is the text before the first '=' and the value is
\* only the next '='-delimited segment; what follows a second '=' is dropped.
C2_KeyAndSecondSegment ==
    (pc = "kv" /\ ret # None /\ ret.ok) =>
        /\ ret.val.key = Prefix(arg, Find(arg, "=") - 1)
        /\ ret.val.value = SecondSegment(arg)
        /\ ~HasEq(ret.val.value)

\* 'a=b=a' style: a token with two '=' whose tail is discarded
C2_Witness ==
    /\ pc = "kv" /\ ret # None /\ ret.ok
    /\ arg = <<"a", "=", "b", "=">> \/ arg = <<"a", "=", "=", "b">>
    /\ ret.val.key = <<"a">>

\* C10 as stated: every KvItem constructed has a non-empty key and value.
C10_NonEmptyKeyValue ==
    (pc = "kv" /\ ret # None /\ ret.ok) =>
        (ret.val.key # <<>> /\ ret.val.value # <<>>)

\* C10 as amended: a KvItem is constructed only from a token containing '=';
\* its key and value contain no '=' and either may be the empty string.
C10_Amended ==
    (pc = "kv" /\ ret # None /\ ret.ok) =>
        /\ HasEq(arg)
        /\ ~HasEq(ret.val.key) /\ ~HasEq(ret.val.value)
        /\ Len(ret.val.key) + Len(ret.val.value) < Len(arg)

C10_Witness ==
    /\ pc = "kv" /\ ret # None /\ ret.ok
    /\ arg = <<"=">>
    /\ ret.val = KvItem(<<>>, <<>>)

(***************************************************************************)
(* SpecUrl: parse_url applied to a scheme part followed by a short text    *)
(***************************************************************************)
UrlSchemeParts == { <<>>, <<":">>, <<"h", "t", "t", "p", ":">>, <<"H", "T", "T", "P", ":">>,
                    <<"x", ":">>, <<"X", "+", "1", ":">>, <<"1", "x", ":">> }
UrlRestAlphabet == {"a", "A", "/"}
UrlInputs == {p \o r : p \in UrlSchemeParts, r \in StringsUpTo(UrlRestAlphabet, MaxUrlRest)}

InitUrl ==
    /\ pc = "url"
    /\ arg \in UrlInputs
    /\ ret = None
    /\ Idle

CallParseUrl ==
    /\ pc = "url"
    /\ ret = None
    /\ ret' = parse_url(arg)
    /\ UNCHANGED <<pc, arg>>
    /\ UNCHANGED RunVars

NextUrl == CallParseUrl

SpecUrl == InitUrl /\ [][NextUrl]_vars

InvalidUrl == {"RelativeUrlWithoutBase", "EmptyHost"}

\* a scheme: a letter, then letters, digits, '+', '-' or '.', then ':'
HasScheme(s) ==
    \E n \in 1..(Len(s) - 1) :
        /\ s[n + 1] = ":"
        /\ IsAlpha(s[1])
        /\ \A i \in 1..n : s[i] # ":" /\ IsSchemeChar(s[i])

\* C3: parse_url returns exactly its input, not the parsed Url's
\* serialization, for every input that parses as an absolute URL, and fails
\* with an InvalidUrl error for every input without a scheme or otherwise
\* unparseable.
C3_UrlGate ==
    (pc = "url" /\ ret # None) =>
        /\ UrlParse(arg).ok => ret = Ok(arg)
        /\ ~UrlParse(arg).ok => (~ret.ok /\ ret.err \in InvalidUrl)
        /\ ~HasScheme(arg) => (~ret.ok /\ ret.err = "RelativeUrlWithoutBase")

\* 'HTTP:A' is accepted and returned as written although it parses to
\* 'http://a/'
C3_Witness ==
    /\ pc = "url" /\ ret # None /\ ret.ok
    /\ arg = <<"H", "T", "T", "P", ":", "A">>
    /\ UrlParse(arg).val.href = <<"h", "t", "t", "p", ":", "/", "/", "a", "/">>
    /\ ret.val = arg

(***************************************************************************)
(* The command line and clap's parsing of it (Opts::parse)                 *)
(***************************************************************************)
HttpA == <<"h", "t", "t", "p", ":", "/", "/", "a">>     \* http://a
HttpNoHost == <<"h", "t", "t", "p", ":", "/", "/">>     \* http://
BareHost == <<"a", ".", "b">>                           \* a.b
Opaque == <<"x", ":", "a">>                             \* x:a

MainUrls == {HttpA, HttpNoHost, BareHost, Opaque}
MainToken1 == <<"a", "=", "1">>
MainTokens == { MainToken1, <<"a", "=", "2">>, <<"b", "=", "1">>, <<"a">> }

RECURSIVE SeqsUpTo(_, _)
SeqsUpTo(S, n) ==
    IF n = 0 THEN {<<>>}
    ELSE LET shorter == SeqsUpTo(S, n - 1)
         IN  shorter \cup {Append(s, x) : s \in shorter, x \in S}

Argv == [subcmd : {"get"}, url : MainUrls, body : {<<>>}]
        \cup [subcmd : {"post"}, url : MainUrls, body : SeqsUpTo(MainTokens, MaxBody)]

\* the process ends with a diagnostic and an exit status
Exit(code, diag) ==
    /\ pc' = "exit"
    /\ exitCode' = code
    /\ stderr' = Append(stderr, diag)

\* mutant: body tokens that fail to parse are skipped instead of reported
Opts_parse_skip ==
    /\ pc = "start"
    /\ LET u == parse_url(argv.url)
           good == SelectSeq(argv.body, LAMBDA s : parse_kvs(s).ok)
       IN  IF ~u.ok
           THEN Exit(2, <<"clap", u.err>>) /\ UNCHANGED opts
           ELSE /\ opts' = [subcmd |-> argv.subcmd, url |-> u.val,
                            body |-> [i \in 1..Len(good) |-> parse_kvs(good[i]).val]]
                /\ pc' = "client"
                /\ UNCHANGED <<exitCode, stderr>>
    /\ UNCHANGED <<argv, server, sent, resp, mime, text, stdout, arg, ret>>

\* Opts::parse(): clap runs parse_url on the url and parse_kvs on each body
\* token; the first failure is reported and the process exits with status 2.
Opts_parse ==
    /\ pc = "start"
    /\ LET u == parse_url(argv.url)
           kvs == [i \in 1..Len(argv.body) |-> parse_kvs(argv.body[i])]
           bad == {i \in 1..Len(argv.body) : ~kvs[i].ok}
       IN  IF ~u.ok
           THEN Exit(2, <<"clap", u.err>>) /\ UNCHANGED opts
           ELSE IF bad # {}
           THEN Exit(2, <<"clap", kvs[CHOOSE i \in bad : \A j \in bad : i <= j].err>>)
                /\ UNCHANGED opts
           ELSE /\ opts' = [subcmd |-> argv.subcmd, url |-> u.val,
                            body |-> [i \in 1..Len(argv.body) |-> kvs[i].val]]
                /\ pc' = "client"
                /\ UNCHANGED <<exitCode, stderr>>
    /\ UNCHANGED <<argv, server, sent, resp, mime, text, stdout, arg, ret>>

(***************************************************************************)
(* The client and its default headers                                      *)
(***************************************************************************)
DefaultHeaders == << [name |-> "x-powered-by", value |-> "Rust"],
                     [name |-> "user-agent", value |-> "Rust Httpie"] >>

\* reqwest::Client::builder().default_headers(headers).build()?
\* building the client can fail (TLS backend, resolver); main then returns Err
build_client ==
    /\ pc = "client"
    /\ \E ok \in BOOLEAN :
        IF ok THEN pc' = "request" /\ UNCHANGED <<exitCode, stderr>>
        ELSE Exit(1, <<"Error", "builder">>)
    /\ UNCHANGED <<argv, server, opts, sent, resp, mime, text, stdout, arg, ret>>

(***************************************************************************)
(* The responses the server may give                                       *)
(***************************************************************************)
AppJson == <<"a", "p", "p", "l", "i", "c", "a", "t", "i", "o", "n", "/", "j", "s", "o", "n">>
AppJsonUtf8 == AppJson \o <<";", " ", "c", "h", "a", "r", "s", "e", "t", "=", "u", "t", "f", "-", "8">>
TextPlain == <<"t", "e", "x", "t", "/", "p", "l", "a", "i", "n">>
NoSlash == <<"j", "s", "o", "n">>               \* not a media type
NotText == <<"0xFF">>                           \* a byte that is not visible ASCII

Header(n, v) == [name |-> n, value |-> v]

ServerHeaders ==
    {Header("content-type", v) : v \in {AppJson, AppJsonUtf8, TextPlain, NoSlash, NotText}}
    \cup {Header("x-a", <<"1">>)}

\* body texts, as tokens: {"x":1} and hi
JsonText == <<"{", "\"x\"", ":", "1", "}">>
PlainText == <<"h", "i">>

Responses ==
    [version : {"HTTP/1.1"}, status : {200, 404},
     headers : SeqsUpTo(ServerHeaders, MaxHeaders), body : {JsonText, PlainText}]

\* the few responses of Spec, whose subject is the command line
PlainResponses ==
    [version : {"HTTP/1.1"}, status : {200, 404},
     headers : {<<>>, <<Header("content-type", AppJson)>>}, body : {JsonText}]

(***************************************************************************)
(* get and post                                                            *)
(***************************************************************************)
\* reqwest's IntoUrl: the url is parsed again and must have a host
IntoUrl(url) ==
    LET u == UrlParse(url)
    IN  IF ~u.ok THEN Err("builder error")
        ELSE IF ~u.val.has_host THEN Err("URL scheme is not allowed")
        ELSE Ok(u.val.href)

Request(method, url, headers, body) ==
    [method |-> method, url |-> url, headers |-> headers, body |-> body]

NetworkError == [error |-> "network"]

\* send().await?: the request goes to the transport, which fails or answers
Send(req) ==
    /\ sent' = Append(sent, req)
    /\ IF server = NetworkError
       THEN Exit(1, <<"Error", "network">>) /\ UNCHANGED resp
       ELSE /\ resp' = server
            /\ pc' = "print_status"
            /\ UNCHANGED <<exitCode, stderr>>

\* mutant: a response with an error status is turned into an Err
get_error_for_status ==
    /\ pc = "request"
    /\ opts.subcmd = "get"
    /\ LET u == IntoUrl(opts.url)
       IN  IF ~u.ok THEN Exit(1, <<"Error", u.err>>) /\ UNCHANGED <<sent, resp>>
           ELSE /\ sent' = Append(sent, Request("GET", u.val, DefaultHeaders, None))
                /\ IF server = NetworkError
                   THEN Exit(1, <<"Error", "network">>) /\ UNCHANGED resp
                   ELSE /\ resp' = server
                        /\ IF server.status >= 400 THEN Exit(1, <<"Error", "status">>)
                           ELSE pc' = "print_status" /\ UNCHANGED <<exitCode, stderr>>
    /\ UNCHANGED <<argv, server, opts, mime, text, stdout, arg, ret>>

get ==
    /\ pc = "request"
    /\ opts.subcmd = "get"
    /\ LET u == IntoUrl(opts.url)
       IN  IF ~u.ok THEN Exit(1, <<"Error", u.err>>) /\ UNCHANGED <<sent, resp>>
           ELSE Send(Request("GET", u.val, DefaultHeaders, None))
    /\ UNCHANGED <<argv, server, opts, mime, text, stdout, arg, ret>>

EmptyMap == [k \in {} |-> <<>>]

\* mutant: an existing key keeps its first value
HashMapInsertFirst(m, k, v) ==
    [x \in DOMAIN m \cup {k} |-> IF x \in DOMAIN m THEN m[x] ELSE v]

\* HashMap::insert: the value of an existing key is replaced
HashMapInsert(m, k, v) ==
    [x \in DOMAIN m \cup {k} |-> IF x = k THEN v ELSE m[x]]

\* the loop of post: the items are inserted in order
RECURSIVE InsertAll(_, _)
InsertAll(m, items) ==
    IF items = <<>> THEN m
    ELSE InsertAll(HashMapInsert(m, Head(items).key, Head(items).value), Tail(items))

\* RequestBuilder::json: the map as a JSON object, with its content type
JsonHeaders == Append(DefaultHeaders, [name |-> "content-type", value |-> "application/json"])

post ==
    /\ pc = "request"
    /\ opts.subcmd = "post"
    /\ LET body == InsertAll(EmptyMap, opts.body)
           u == IntoUrl(opts.url)
       IN  IF ~u.ok THEN Exit(1, <<"Error", u.err>>) /\ UNCHANGED <<sent, resp>>
           ELSE Send(Request("POST", u.val, JsonHeaders, [json |-> body]))
    /\ UNCHANGED <<argv, server, opts, mime, text, stdout, arg, ret>>

(***************************************************************************)
(* HeaderMap (the http crate): the headers of a Response                   *)
(***************************************************************************)
\* the names of hs in the order of their first appearance
RECURSIVE FirstNames(_)
FirstNames(hs) ==
    IF hs = <<>> THEN <<>>
    ELSE LET n == Head(hs).name
         IN  <<n>> \o FirstNames(SelectSeq(Tail(hs), LAMBDA h : h.name # n))

\* HeaderMap::iter after the received headers were appended in order: one
\* entry per name in the order of first appearance, and under each entry all
\* the values of that name in the order received
RECURSIVE IterEntries(_, _)
IterEntries(names, hs) ==
    IF names = <<>> THEN <<>>
    ELSE SelectSeq(hs, LAMBDA h : h.name = Head(names)) \o IterEntries(Tail(names), hs)

HeaderMapIter(hs) == IterEntries(FirstNames(hs), hs)

\* HeaderMap::get: the first value of the name, if any
HeaderMapGet(hs, name) ==
    LET vs == SelectSeq(hs, LAMBDA h : h.name = name)
    IN  IF vs = <<>> THEN None ELSE [some |-> Head(vs).value]

(***************************************************************************)
(* Mime (the mime crate)                                                   *)
(***************************************************************************)
IsMimeToken(c) == IsAlpha(c) \/ c \in Digits \/ c \in {"-", "+", ".", "_", "!", "#", "$", "&", "^"}

RECURSIVE TrimStart(_)
TrimStart(s) == IF Len(s) > 0 /\ Head(s) = " " THEN TrimStart(Tail(s)) ELSE s

Mime(type, subtype, params) == [type |-> type, subtype |-> subtype, params |-> params]

\* "a=b" with non-empty token name and value
ParamOk(p) ==
    LET eq == Find(p, "=")
    IN  /\ eq > 1 /\ eq < Len(p)
        /\ \A i \in 1..Len(p) : i # eq => IsMimeToken(p[i])

\* str::parse::<Mime>: type "/" subtype [";" parameter], case-insensitive
MimeParse(s) ==
    LET semi == Find(s, ";")
        essence == IF semi = 0 THEN s ELSE Prefix(s, semi - 1)
        params == IF semi = 0 THEN <<>> ELSE TrimStart(Suffix(s, semi + 1))
        slash == Find(essence, "/")
    IN  IF /\ slash > 1 /\ slash < Len(essence)
           /\ \A i \in 1..Len(essence) : i # slash => IsMimeToken(essence[i])
           /\ semi # 0 => ParamOk(params)
        THEN Ok(Mime(LowerStr(Prefix(essence, slash - 1)),
                     LowerStr(Suffix(essence, slash + 1)), params))
        ELSE Err("mime::FromStrError")

\* mime::APPLICATION_JSON
APPLICATION_JSON ==
    Mime(<<"a", "p", "p", "l", "i", "c", "a", "t", "i", "o", "n">>, <<"j", "s", "o", "n">>, <<>>)

\* HeaderValue::to_str: only visible ASCII is text
NotVisible == {"0xFF"}
ToStr(v) ==
    IF \E i \in 1..Len(v) : v[i] \in NotVisible THEN Err("ToStrError") ELSE Ok(v)

Panic(msg) == [panic |-> TRUE, msg |-> msg]
Return(v) == [panic |-> FALSE, val |-> v]

\* resp.headers().get(CONTENT_TYPE).map(|ct| ct.to_str().unwrap().parse().unwrap())
get_content_type(r) ==
    LET ct == HeaderMapGet(r.headers, "content-type")
    IN  IF ct = None THEN Return(None)
        ELSE IF ~ToStr(ct.some).ok THEN Panic(ToStr(ct.some).err)
        ELSE IF ~MimeParse(ct.some).ok THEN Panic(MimeParse(ct.some).err)
        ELSE Return([some |-> MimeParse(ct.some).val])

(***************************************************************************)
(* jsonxf::pretty_print, on the tokens of the text                         *)
(***************************************************************************)
RECURSIVE Indent(_)
Indent(depth) == IF depth <= 0 THEN <<>> ELSE <<"  ">> \o Indent(depth - 1)

NewLine(depth) == <<"\n">> \o Indent(depth)

\* empty: the last token written opened an object or array
RECURSIVE Format(_, _, _)
Format(toks, depth, empty) ==
    IF toks = <<>> THEN <<>>
    ELSE LET c == Head(toks)
             lead == IF empty THEN NewLine(depth) ELSE <<>>
         IN  IF c \in {"{", "["}
             THEN lead \o <<c>> \o Format(Tail(toks), depth + 1, TRUE)
             ELSE IF c \in {"}", "]"}
             THEN (IF empty THEN <<c>> ELSE NewLine(depth - 1) \o <<c>>)
                  \o Format(Tail(toks), depth - 1, FALSE)
             ELSE IF c = ","
             THEN <<c>> \o NewLine(depth) \o Format(Tail(toks), depth, FALSE)
             ELSE IF c = ":"
             THEN <<c, " ">> \o Format(Tail(toks), depth, FALSE)
             ELSE lead \o <<c>> \o Format(Tail(toks), depth, FALSE)

\* the input is reformatted, never validated: the result is always Ok
pretty_print(body) == Ok(Format(body, 0, FALSE))

(***************************************************************************)
(* print_response                                                          *)
(***************************************************************************)
\* one println!: what the line is (status, header, blank, body), its text
\* and the colour it is styled with
Line(kind, txt, color) == [kind |-> kind, text |-> txt, color |-> color]
Blank == Line("blank", <<>>, "none")

\* StatusCode's Display: the code and its reason phrase
Reason(status) == IF status = 200 THEN "OK" ELSE "Not Found"

\* format!("{:?} {}", resp.version(), resp.status()).blue()
StatusLine(r) == Line("status", <<r.version, " ", r.status, " ", Reason(r.status)>>, "blue")

\* HeaderValue's Debug: quoted, bytes that are not visible escaped
DebugValue(v) ==
    <<"\"">> \o [i \in 1..Len(v) |-> IF v[i] \in NotVisible THEN "\\xff" ELSE v[i]] \o <<"\"">>

\* "{}: {:?}" with the name in green
HeaderLine(h) == Line("header", <<h.name, ": ">> \o DebugValue(h.value), "green")

HeaderLines(hs) == [i \in 1..Len(hs) |-> HeaderLine(hs[i])]

PrintVars == <<argv, server, opts, sent, resp, arg, ret>>

\* println!("{}\n", status): the status line and an empty line
print_status ==
    /\ pc = "print_status"
    /\ stdout' = stdout \o <<StatusLine(resp), Blank>>
    /\ pc' = "print_headers"
    /\ UNCHANGED <<mime, text, stderr, exitCode>>
    /\ UNCHANGED PrintVars

\* mutant: the empty line after the headers is not printed
print_headers_no_blank ==
    /\ pc = "print_headers"
    /\ stdout' = stdout \o HeaderLines(HeaderMapIter(resp.headers))
    /\ pc' = "get_content_type"
    /\ UNCHANGED <<mime, text, stderr, exitCode>>
    /\ UNCHANGED PrintVars

\* one line per (name, value) of resp.headers(), then an empty line
print_headers ==
    /\ pc = "print_headers"
    /\ stdout' = stdout \o HeaderLines(HeaderMapIter(resp.headers)) \o <<Blank>>
    /\ pc' = "get_content_type"
    /\ UNCHANGED <<mime, text, stderr, exitCode>>
    /\ UNCHANGED PrintVars

\* let mime = get_content_type(&resp); an unwrap on Err panics: exit 101
let_mime ==
    /\ pc = "get_content_type"
    /\ LET m == get_content_type(resp)
       IN  IF m.panic
           THEN Exit(101, <<"panicked", m.msg>>) /\ UNCHANGED mime
           ELSE mime' = m.val /\ pc' = "text" /\ UNCHANGED <<stderr, exitCode>>
    /\ UNCHANGED <<text, stdout>>
    /\ UNCHANGED PrintVars

\* let body = resp.text().await?; reading the body can fail
resp_text ==
    /\ pc = "text"
    /\ \/ text' = resp.body /\ pc' = "print_body" /\ UNCHANGED <<stderr, exitCode>>
       \/ Exit(1, <<"Error", "body">>) /\ UNCHANGED text
    /\ UNCHANGED <<mime, stdout>>
    /\ UNCHANGED PrintVars

\* mutant: parameters are ignored when the media type is compared
print_body_essence ==
    /\ pc = "print_body"
    /\ IF /\ mime # None
          /\ mime.some.type = APPLICATION_JSON.type
          /\ mime.some.subtype = APPLICATION_JSON.subtype
       THEN stdout' = Append(stdout, Line("body", pretty_print(text).val, "cyan"))
       ELSE stdout' = Append(stdout, Line("body", text, "none"))
    /\ pc' = "return"
    /\ UNCHANGED <<mime, text, stderr, exitCode>>
    /\ UNCHANGED PrintVars

\* print_body(mime, &body)
print_body ==
    /\ pc = "print_body"
    /\ IF mime # None /\ mime.some = APPLICATION_JSON
       THEN stdout' = Append(stdout, Line("body", pretty_print(text).val, "cyan"))
       ELSE stdout' = Append(stdout, Line("body", text, "none"))
    /\ pc' = "return"
    /\ UNCHANGED <<mime, text, stderr, exitCode>>
    /\ UNCHANGED PrintVars

\* Ok(print_response(result).await?): main returns Ok(()), exit status 0
main_return ==
    /\ pc = "return"
    /\ pc' = "exit"
    /\ exitCode' = 0
    /\ UNCHANGED <<mime, text, stdout, stderr>>
    /\ UNCHANGED PrintVars

(***************************************************************************)
(* Spec: one run of main                                                   *)
(***************************************************************************)
Running ==
    /\ pc = "start"
    /\ opts = None /\ sent = <<>> /\ resp = None
    /\ mime = None /\ text = None
    /\ stdout = <<>> /\ stderr = <<>> /\ exitCode = None
    /\ arg = None /\ ret = None

\* every command line, against a server with few answers
Init ==
    /\ argv \in Argv
    /\ server \in {NetworkError} \cup PlainResponses
    /\ Running

\* one get and one post, against a server with every answer
RenderArgv == { [subcmd |-> "get", url |-> HttpA, body |-> <<>>],
                [subcmd |-> "post", url |-> HttpA, body |-> <<MainToken1>>] }

InitRender ==
    /\ argv \in RenderArgv
    /\ server \in {NetworkError} \cup Responses
    /\ Running

Next ==
    \/ Opts_parse
    \/ build_client
    \/ get
    \/ post
    \/ print_status
    \/ print_headers
    \/ let_mime
    \/ resp_text
    \/ print_body
    \/ main_return

Spec == Init /\ [][Next]_vars

SpecRender == InitRender /\ [][Next]_vars

(***************************************************************************)
(* Properties of a run                                                     *)
(***************************************************************************)
\* the command line is acceptable: the url parses and every body token of a
\* post has an '='
ArgsValid ==
    /\ UrlParse(argv.url).ok
    /\ \A i \in 1..Len(argv.body) : HasEq(argv.body[i])

Exited == pc = "exit"

\* C4: a request is handed to the transport only after the whole command
\* line was parsed and validated; when the url or a body token is invalid
\* the process ends with an error and no request is ever sent.
C4_ValidatedBeforeNetwork ==
    /\ sent # <<>> => (ArgsValid /\ opts # None)
    /\ (Exited /\ ~ArgsValid) =>
            /\ exitCode # 0
            /\ stderr # <<>>
            /\ sent = <<>> /\ resp = None /\ stdout = <<>>

\* post http://a a=1 a : the second token has no '='
C4_Witness ==
    /\ Exited /\ exitCode = 2 /\ sent = <<>>
    /\ argv.subcmd = "post" /\ argv.url = HttpA
    /\ argv.body = << <<"a", "=", "1">>, <<"a">> >>

\* the index of the last pair of items whose key is k
LastWith(items, k) ==
    CHOOSE i \in 1..Len(items) :
        /\ items[i].key = k
        /\ \A j \in (i + 1)..Len(items) : items[j].key # k

\* C5: the JSON body of a post is the object with exactly one entry per
\* distinct key of the pairs, whose value is that of the last pair with that
\* key; no pairs give the empty object.
C5_LastWriteWins ==
    \A n \in 1..Len(sent) :
        sent[n].method = "POST" =>
            LET object == sent[n].body.json
                items == opts.body
            IN  /\ DOMAIN object = {items[i].key : i \in 1..Len(items)}
                /\ \A k \in DOMAIN object : object[k] = items[LastWith(items, k)].value
                /\ items = <<>> => object = EmptyMap

\* [(a,1),(a,2)] gives {"a":"2"}
C5_Witness ==
    /\ Len(sent) = 1 /\ sent[1].method = "POST"
    /\ opts.body = << KvItem(<<"a">>, <<"1">>), KvItem(<<"a">>, <<"2">>) >>
    /\ DOMAIN sent[1].body.json = { <<"a">> }
    /\ sent[1].body.json[<<"a">>] = <<"2">>

\* the status line, an empty line, the header lines of hs and an empty line
Preamble(r, hs) == <<StatusLine(r), Blank>> \o HeaderLines(hs) \o <<Blank>>

\* stdout is the beginning of: the preamble, then one body output
InOrder(r, hs) ==
    \/ IsPrefixOf(stdout, Preamble(r, hs))
    \/ /\ Len(stdout) = Len(Preamble(r, hs)) + 1
       /\ IsPrefixOf(Preamble(r, hs), stdout)
       /\ stdout[Len(stdout)].kind = "body"

BodyPrinted == stdout # <<>> /\ stdout[Len(stdout)].kind = "body"
BodyOut == stdout[Len(stdout)].text

\* the value of the Content-Type header of the response, None when absent
ContentType == HeaderMapGet(resp.headers, "content-type")

\* {"x":1} on three lines, indented
JsonPretty == <<"{", "\n", "  ", "\"x\"", ":", " ", "1", "\n", "}">>

\* C7: the body is printed as indented JSON exactly when the Content-Type is
\* application/json; under any other media type that parses, parameters
\* included, the text of the body is printed as it is.
C7_JsonIffApplicationJson ==
    (resp # None /\ BodyPrinted /\ ContentType # None) =>
        IF LowerStr(ContentType.some) = AppJson
        THEN /\ BodyOut = pretty_print(resp.body).val
             /\ resp.body = JsonText => BodyOut = JsonPretty
        ELSE BodyOut = resp.body

C7_Witness ==
    /\ Exited /\ exitCode = 0 /\ BodyPrinted
    /\ ContentType = [some |-> AppJson]
    /\ resp.body = JsonText
    /\ BodyOut = JsonPretty

\* the Content-Type header is absent, or is not text, or is no media type
NoUsableContentType ==
    \/ ContentType = None
    \/ \E i \in 1..Len(ContentType.some) : ContentType.some[i] \in NotVisible
    \/ ~MimeParse(ContentType.some).ok

BodyReadFailed == stderr = << <<"Error", "body">> >>

\* C8: when the Content-Type is absent or unparseable, the body is printed
\* as it is after the status line and the headers and the process succeeds
\* (unless reading the body itself failed).
C8_RawWhenNoUsableContentType ==
    (Exited /\ resp # None /\ NoUsableContentType /\ ~BodyReadFailed) =>
        /\ exitCode = 0
        /\ BodyPrinted /\ BodyOut = resp.body

====
